---- MODULE Spec2Model ----
(***************************************************************************)
(* Model of the Uptime heartbeat client (src/src/uptime.ts).               *)
(*                                                                         *)
(* One client object is constructed from an optional configuration; any    *)
(* number of calls may then be in flight on it.  Each call runs the        *)
(* synchronous prologue of sendHeartbeat (URL construction, method and     *)
(* timeout selection, AbortController, setTimeout, fetch) in one step and  *)
(* then suspends at `await fetch`.  The event loop then delivers either    *)
(* the transport's completion or the timer callback.  A promise            *)
(* continuation runs as a microtask, before any other timer or I/O         *)
(* callback, so a completion and the code after the await form one step.   *)
(*                                                                         *)
(* An optional JavaScript value is a sequence: <<>> is undefined, <<v>> is *)
(* the value v.                                                            *)
(***************************************************************************)
EXTENDS Integers, Sequences, FiniteSets, TLC

VARIABLES config, client, calls

vars == <<config, client, calls>>

\* Number of call slots, i.e. of calls that may be in flight together.
MaxCalls == 2

CallIds == 1..MaxCalls

Undefined == <<>>

Some(v) == <<v>>

IsDefined(o) == o # <<>>

Val(o) == o[1]

----------------------------------------------------------------------------
(* Template literals: `${n}` formats a number in decimal.                  *)

Digit == <<"0", "1", "2", "3", "4", "5", "6", "7", "8", "9">>

RECURSIVE NatToStr(_)
NatToStr(n) ==
    IF n < 10 THEN Digit[n + 1]
    ELSE NatToStr(n \div 10) \o Digit[(n % 10) + 1]

NumToStr(n) == IF n < 0 THEN "-" \o NatToStr(0 - n) ELSE NatToStr(n)

----------------------------------------------------------------------------
(* Program constants.                                                      *)

DefaultBaseUrl == "https://uptime.betterstack.com/api/v1"

DefaultVersion == "1.0.0"

DefaultTimeoutMs == 10000

MinExitCode == 0

MaxExitCode == 255

----------------------------------------------------------------------------
(* Thrown values.  Every thrown value has the same shape; `class` is what  *)
(* instanceof tests, `name` is the value's name property.                  *)

Thrown(class, name, message, status, statusText, cause) ==
    [class |-> class, name |-> name, message |-> message,
     status |-> status, statusText |-> statusText, cause |-> cause]

\* new UptimeError(message, options)
UptimeError(message, status, statusText, cause) ==
    Thrown("UptimeError", "UptimeError", message, status, statusText, cause)

\* The reason of an AbortSignal aborted by controller.abort() without argument.
AbortReason ==
    Thrown("DOMException", "AbortError", "The operation was aborted.",
           Undefined, Undefined, Undefined)

\* response.ok: the status is in the range 200-299.
ResponseOk(response) == response.status \in 200..299

----------------------------------------------------------------------------
(* The constructor.                                                        *)

\* a || b on strings: the empty string is falsy.
StrOr(o, default) ==
    IF IsDefined(o) /\ Val(o) # "" THEN Val(o) ELSE default

\* a || b on numbers: zero is falsy.
NumOr(o, default) ==
    IF IsDefined(o) /\ Val(o) # 0 THEN Val(o) ELSE default

\* a ?? b: only undefined falls through.
Nullish(o, default) == IF IsDefined(o) THEN Val(o) ELSE default

Constructor(cfg) ==
    [baseUrl |-> StrOr(cfg.baseUrl, DefaultBaseUrl),
     userAgent |-> "uptime-betterstack-bun/" \o StrOr(cfg.version, DefaultVersion),
     defaultTimeout |-> NumOr(cfg.defaultTimeout, DefaultTimeoutMs)]

----------------------------------------------------------------------------
(* buildHeartbeatUrl: the URL, or the UptimeError it throws.               *)

Returned(v) == [threw |-> FALSE, value |-> Some(v), error |-> Undefined]

Threw(e) == [threw |-> TRUE, value |-> Undefined, error |-> Some(e)]

\* Variant: the upper bound is excluded.
ExitCodeOutOfRangeExclusive(exitCode) ==
    exitCode < MinExitCode \/ exitCode >= MaxExitCode

ExitCodeOutOfRange(exitCode) == exitCode < MinExitCode \/ exitCode > MaxExitCode

\* Variant: the heartbeatId is not checked.
buildHeartbeatUrlUnchecked(baseUrl, heartbeatId, options) ==
    LET url == baseUrl \o "/heartbeat/" \o heartbeatId
    IN  IF options.reportFailure = Some(TRUE)
        THEN Returned(url \o "/fail")
        ELSE IF IsDefined(options.exitCode)
        THEN IF Val(options.exitCode) < MinExitCode
                \/ Val(options.exitCode) > MaxExitCode
             THEN Threw(UptimeError(
                      "Exit code must be between 0 and 255, got "
                          \o NumToStr(Val(options.exitCode)),
                      Undefined, Undefined, Undefined))
             ELSE Returned(url \o "/" \o NumToStr(Val(options.exitCode)))
        ELSE Returned(url)

\* Variant: the exit code is handled before reportFailure.
buildHeartbeatUrlExitCodeFirst(baseUrl, heartbeatId, options) ==
    IF heartbeatId = ""
    THEN Threw(UptimeError("Heartbeat ID is required",
                           Undefined, Undefined, Undefined))
    ELSE LET url == baseUrl \o "/heartbeat/" \o heartbeatId
         IN  IF IsDefined(options.exitCode)
             THEN IF Val(options.exitCode) < MinExitCode
                     \/ Val(options.exitCode) > MaxExitCode
                  THEN Threw(UptimeError(
                           "Exit code must be between 0 and 255, got "
                               \o NumToStr(Val(options.exitCode)),
                           Undefined, Undefined, Undefined))
                  ELSE Returned(url \o "/" \o NumToStr(Val(options.exitCode)))
             ELSE IF options.reportFailure = Some(TRUE)
             THEN Returned(url \o "/fail")
             ELSE Returned(url)

buildHeartbeatUrl(baseUrl, heartbeatId, options) ==
    IF heartbeatId = ""
    THEN Threw(UptimeError("Heartbeat ID is required",
                           Undefined, Undefined, Undefined))
    ELSE LET url == baseUrl \o "/heartbeat/" \o heartbeatId
         IN  IF options.reportFailure = Some(TRUE)
             THEN Returned(url \o "/fail")
             ELSE IF IsDefined(options.exitCode)
             THEN IF ExitCodeOutOfRange(Val(options.exitCode))
                  THEN Threw(UptimeError(
                           "Exit code must be between 0 and 255, got "
                               \o NumToStr(Val(options.exitCode)),
                           Undefined, Undefined, Undefined))
                  ELSE Returned(url \o "/" \o NumToStr(Val(options.exitCode)))
             ELSE Returned(url)

----------------------------------------------------------------------------
(* The catch block of sendHeartbeat: what is re-thrown for a caught value. *)

\* Variant: an abort is not told apart from other failures.
catchBlockNoTimeout(error, timeout) ==
    IF error.class = "UptimeError"
    THEN error
    ELSE UptimeError("Failed to send heartbeat",
                     Undefined, Undefined, Some(error))

\* Variant: an UptimeError is wrapped like any other caught value.
catchBlockWrapAll(error, timeout) ==
    IF error.class = "DOMException" /\ error.name = "AbortError"
    THEN UptimeError("Request timed out after " \o NumToStr(timeout) \o "ms",
                     Undefined, Undefined, Some(error))
    ELSE UptimeError("Failed to send heartbeat",
                     Undefined, Undefined, Some(error))

catchBlock(error, timeout) ==
    IF error.class = "UptimeError"
    THEN error
    ELSE IF error.class = "DOMException" /\ error.name = "AbortError"
    THEN UptimeError("Request timed out after " \o NumToStr(timeout) \o "ms",
                     Undefined, Undefined, Some(error))
    ELSE UptimeError("Failed to send heartbeat",
                     Undefined, Undefined, Some(error))

\* What the code after `await fetch` does with a response.
afterResponse(response, timeout) ==
    IF ~ResponseOk(response)
    THEN Threw(catchBlock(
             UptimeError("Heartbeat failed: " \o NumToStr(response.status)
                             \o " " \o response.statusText,
                         Some(response.status), Some(response.statusText),
                         Undefined),
             timeout))
    ELSE Returned(response)

----------------------------------------------------------------------------
(* The convenience wrappers: the options each forwards to sendHeartbeat.   *)

\* Variant: reportWithExitCode spreads the options over the exit code,
\* { exitCode, ...options }, so an exitCode in the options wins.
forwardedOptionsSpreadLast(entry, options, exitCode) ==
    CASE entry = "sendHeartbeat" -> options
      [] entry = "reportSuccess" -> options
      [] entry = "reportFailure" -> [options EXCEPT !.reportFailure = Some(TRUE)]
      [] entry = "reportWithExitCode" ->
             [options EXCEPT !.exitCode = IF IsDefined(@) THEN @ ELSE exitCode]

forwardedOptions(entry, options, exitCode) ==
    CASE entry = "sendHeartbeat" -> options
      [] entry = "reportSuccess" -> options
      [] entry = "reportFailure" -> [options EXCEPT !.reportFailure = Some(TRUE)]
      [] entry = "reportWithExitCode" -> [options EXCEPT !.exitCode = exitCode]

----------------------------------------------------------------------------
(* The state of one call.                                                  *)

NoOptions ==
    [exitCode |-> Undefined, reportFailure |-> Undefined,
     method |-> Undefined, timeout |-> Undefined]

IdleCall ==
    [pc |-> "idle",              \* idle, awaiting (at `await fetch`), settled
     entry |-> "",               \* the method the caller invoked
     heartbeatId |-> "",
     options |-> NoOptions,      \* the options the caller passed
     exitCodeArg |-> Undefined,  \* reportWithExitCode's exitCode argument
     forwards |-> <<>>,          \* the sendHeartbeat calls made: their arguments
     timeout |-> Undefined,      \* const timeout
     timer |-> "none",           \* none, armed, cleared, fired
     timerDelay |-> Undefined,   \* the delay given to setTimeout
     aborted |-> FALSE,          \* controller.signal.aborted
     aborts |-> 0,               \* invocations of controller.abort
     requests |-> <<>>,          \* the fetch calls made
     fetch |-> "none",           \* none, pending, fulfilled, rejected
     response |-> Undefined,     \* what the fetch promise was fulfilled with
     reason |-> Undefined,       \* what the fetch promise was rejected with
     firedFirst |-> FALSE,       \* the timer fired while the fetch was pending
     lateAbort |-> FALSE,        \* controller.abort ran after the call settled
     settles |-> 0,              \* times the call's promise settled
     outcome |-> Undefined]      \* what the caller receives

Request(url, method, userAgent, signal) ==
    [url |-> url, method |-> method, accept |-> "application/json",
     userAgent |-> userAgent, signal |-> signal]

\* The async function's promise settles with a result.
Settle(call, result) ==
    [call EXCEPT !.pc = "settled", !.settles = @ + 1, !.outcome = Some(result)]

\* sendHeartbeat up to its suspension at `await fetch` (or its rejection by
\* buildHeartbeatUrl, which runs outside the try block).
sendHeartbeat(call, id, cl, heartbeatId, options) ==
    LET built == buildHeartbeatUrl(cl.baseUrl, heartbeatId, options)
        method == StrOr(options.method, "GET")
        timeout == Nullish(options.timeout, cl.defaultTimeout)
        entered == [call EXCEPT !.forwards =
                       Append(@, [heartbeatId |-> heartbeatId, options |-> options])]
    IN  IF built.threw
        THEN Settle(entered, built)
        ELSE [entered EXCEPT
                 !.pc = "awaiting",
                 !.timeout = Some(timeout),
                 !.timer = "armed",
                 !.timerDelay = Some(timeout),
                 !.requests = Append(@, Request(Val(built.value), method,
                                                cl.userAgent, id)),
                 !.fetch = "pending"]

\* clearTimeout(timeoutId)
clearTimeout(call) ==
    [call EXCEPT !.timer = IF @ = "armed" THEN "cleared" ELSE @]

\* The fetch promise is fulfilled: the rest of the try block runs.
onFulfilled(call, response) ==
    Settle(clearTimeout([call EXCEPT !.fetch = "fulfilled",
                                     !.response = Some(response)]),
           afterResponse(response, Val(call.timeout)))

\* Variant: a failed request is retried once.
onRejectedRetry(call, error) ==
    IF Len(call.requests) = 1
    THEN [call EXCEPT !.requests = Append(@, @[1])]
    ELSE Settle([call EXCEPT !.fetch = "rejected", !.reason = Some(error)],
                Threw(catchBlock(error, Val(call.timeout))))

\* The fetch promise is rejected: the catch block runs.
onRejected(call, error) ==
    Settle([call EXCEPT !.fetch = "rejected", !.reason = Some(error)],
           Threw(catchBlock(error, Val(call.timeout))))

\* Variant: one AbortController is shared by all calls of the client.
timerCallbackShared(cs, i) ==
    [j \in DOMAIN cs |->
        IF j = i
        THEN [cs[j] EXCEPT !.timer = "fired",
                           !.aborted = TRUE,
                           !.aborts = @ + 1,
                           !.firedFirst = (cs[i].fetch = "pending"),
                           !.lateAbort = (cs[i].pc = "settled")]
        ELSE [cs[j] EXCEPT !.aborted = (cs[j].pc # "idle")]]

\* The timer callback of call i, () => controller.abort(), on the calls cs.
timerCallback(cs, i) ==
    [cs EXCEPT ![i] = [@ EXCEPT !.timer = "fired",
                                !.aborted = TRUE,
                                !.aborts = @ + 1,
                                !.firedFirst = (cs[i].fetch = "pending"),
                                !.lateAbort = (cs[i].pc = "settled")]]

----------------------------------------------------------------------------
(* Input domains.                                                          *)

Configs ==
    [baseUrl : {Undefined, Some("https://custom.example.com/api")},
     version : {Undefined, Some("2.0.0")},
     defaultTimeout : {Undefined, Some(0), Some(5)}]

HeartbeatIds == {"", "abc123"}

ExitCodes == {Some(0 - 1), Some(0), Some(42), Some(255), Some(256)}

Entries == {"sendHeartbeat", "reportSuccess", "reportFailure", "reportWithExitCode"}

AllOptions ==
    [exitCode : {Undefined} \cup ExitCodes,
     reportFailure : {Undefined, Some(FALSE), Some(TRUE)},
     method : {Undefined, Some("POST")},
     timeout : {Undefined, Some(0), Some(5)}]

Response(status, statusText) == [status |-> status, statusText |-> statusText]

Responses ==
    {Response(200, "OK"), Response(304, "Not Modified"),
     Response(404, "Not Found"), Response(500, "Internal Server Error")}

\* Values a transport may reject with.
Errors ==
    {Thrown("Error", "Error", "Network error", Undefined, Undefined, Undefined),
     Thrown("TypeError", "TypeError", "fetch failed", Undefined, Undefined, Undefined),
     Thrown("DOMException", "AbortError", "The connection was closed.",
            Undefined, Undefined, Undefined),
     Thrown("DOMException", "TimeoutError", "The operation timed out.",
            Undefined, Undefined, Undefined),
     Thrown("UptimeError", "UptimeError", "stub", Some(503), Undefined, Undefined)}

----------------------------------------------------------------------------
(* Actions.                                                                *)

Constructed(cfgs) ==
    /\ config \in cfgs
    /\ client = Constructor(config)
    /\ calls = [i \in CallIds |-> IdleCall]

\* The caller invokes an entry point on call slot i.
Invoke(i, entry, heartbeatId, options, exitCode) ==
    /\ calls[i].pc = "idle"
    /\ calls' = [calls EXCEPT ![i] =
           sendHeartbeat([@ EXCEPT !.entry = entry,
                                   !.heartbeatId = heartbeatId,
                                   !.options = options,
                                   !.exitCodeArg = exitCode],
                         i, client, heartbeatId,
                         forwardedOptions(entry, options, exitCode))]
    /\ UNCHANGED <<config, client>>

\* A request whose signal is not aborted completes with a response.
FetchFulfil(i, response) ==
    /\ calls[i].pc = "awaiting"
    /\ calls[i].fetch = "pending"
    /\ ~calls[i].aborted
    /\ calls' = [calls EXCEPT ![i] = onFulfilled(@, response)]
    /\ UNCHANGED <<config, client>>

\* A request whose signal is not aborted fails in the transport.
FetchReject(i, error) ==
    /\ calls[i].pc = "awaiting"
    /\ calls[i].fetch = "pending"
    /\ ~calls[i].aborted
    /\ calls' = [calls EXCEPT ![i] = onRejected(@, error)]
    /\ UNCHANGED <<config, client>>

\* An armed timer expires and its callback runs.
TimerFire(i) ==
    /\ calls[i].timer = "armed"
    /\ calls' = timerCallback(calls, i)
    /\ UNCHANGED <<config, client>>

\* A pending request whose signal is aborted is cancelled: its promise is
\* rejected with the signal's abort reason.
FetchAbort(i) ==
    /\ calls[i].pc = "awaiting"
    /\ calls[i].fetch = "pending"
    /\ calls[i].aborted
    /\ calls' = [calls EXCEPT ![i] = onRejected(@, AbortReason)]
    /\ UNCHANGED <<config, client>>

----------------------------------------------------------------------------
(* Specifications.                                                         *)

\* Spec, FairSpec: calls in flight together, on a few arguments, against
\* every transport result.
SomeConfigs ==
    {[baseUrl |-> Undefined, version |-> Undefined, defaultTimeout |-> Undefined],
     [baseUrl |-> Some("https://custom.example.com/api"),
      version |-> Some("2.0.0"), defaultTimeout |-> Some(5)]}

SomeInvocations ==
    {<<"sendHeartbeat", "abc123", NoOptions, Undefined>>,
     <<"sendHeartbeat", "abc123", [NoOptions EXCEPT !.timeout = Some(0)], Undefined>>,
     <<"sendHeartbeat", "", NoOptions, Undefined>>,
     <<"reportWithExitCode", "abc123", NoOptions, Some(256)>>}

Init == Constructed(SomeConfigs)

Next ==
    \E i \in CallIds :
        \/ \E a \in SomeInvocations : Invoke(i, a[1], a[2], a[3], a[4])
        \/ \E response \in Responses : FetchFulfil(i, response)
        \/ \E error \in Errors : FetchReject(i, error)
        \/ TimerFire(i)
        \/ FetchAbort(i)

Spec == Init /\ [][Next]_vars

\* The event loop runs the callback of every armed timer and delivers the
\* rejection of every cancelled request; a transport need never complete.
FairSpec ==
    /\ Spec
    /\ \A i \in CallIds : WF_vars(TimerFire(i)) /\ WF_vars(FetchAbort(i))

\* SpecArgs: one call, on every combination of configuration, entry point
\* and options, against one result of each kind.
ArgResponses == {Response(200, "OK"), Response(404, "Not Found")}

ArgErrors ==
    {Thrown("Error", "Error", "Network error", Undefined, Undefined, Undefined)}

ExitCodeArgs(entry) ==
    IF entry = "reportWithExitCode" THEN ExitCodes ELSE {Undefined}

InitArgs == Constructed(Configs)

NextArgs ==
    \/ \E entry \in Entries, heartbeatId \in HeartbeatIds, options \in AllOptions :
           \E exitCode \in ExitCodeArgs(entry) :
               Invoke(1, entry, heartbeatId, options, exitCode)
    \/ \E response \in ArgResponses : FetchFulfil(1, response)
    \/ \E error \in ArgErrors : FetchReject(1, error)
    \/ TimerFire(1)
    \/ FetchAbort(1)

SpecArgs == InitArgs /\ [][NextArgs]_vars

\* SpecWrap: a call through a convenience wrapper on slot 1 next to a direct
\* sendHeartbeat call on slot 2, against one result of each kind.
Wrappers == {"reportSuccess", "reportFailure", "reportWithExitCode"}

WrapOptions ==
    [exitCode : {Undefined, Some(42), Some(256)},
     reportFailure : {Undefined, Some(TRUE)},
     method : {Undefined, Some("POST")},
     timeout : {Undefined}]

WrapExitCodeArgs(entry) ==
    IF entry = "reportWithExitCode" THEN {Some(42), Some(256)} ELSE {Undefined}

NextWrap ==
    \/ \E entry \in Wrappers, options \in WrapOptions :
           \E exitCode \in WrapExitCodeArgs(entry) :
               Invoke(1, entry, "abc123", options, exitCode)
    \/ \E options \in WrapOptions :
           Invoke(2, "sendHeartbeat", "abc123", options, Undefined)
    \/ \E i \in {1, 2} :
           \/ \E response \in ArgResponses : FetchFulfil(i, response)
           \/ \E error \in ArgErrors : FetchReject(i, error)
           \/ TimerFire(i)
           \/ FetchAbort(i)

SpecWrap == Init /\ [][NextWrap]_vars

----------------------------------------------------------------------------
(* The caller's view of a call, used to state the properties.              *)

Settled(i) == calls[i].pc = "settled"

\* reportFailure is in effect: passed in the options, or by the wrapper.
WantsFailure(c) ==
    c.options.reportFailure = Some(TRUE) \/ c.entry = "reportFailure"

\* The exit code supplied, if any: the wrapper's argument, or the option.
GivenExitCode(c) ==
    IF c.entry = "reportWithExitCode" THEN c.exitCodeArg ELSE c.options.exitCode

\* An UptimeError that carries a message only.
InvalidArgument(message) == UptimeError(message, Undefined, Undefined, Undefined)

RejectedWith(c, error) == c.pc = "settled" /\ c.outcome = Some(Threw(error))

\* No request was issued and no timer was armed.
NothingStarted(c) ==
    /\ c.requests = <<>>
    /\ c.fetch = "none"
    /\ c.timer = "none"
    /\ c.timerDelay = Undefined
    /\ c.aborts = 0

TimeoutError(c) ==
    UptimeError("Request timed out after " \o NumToStr(Val(c.timeout)) \o "ms",
                Undefined, Undefined, Some(AbortReason))

\* The call rejected with the Timeout error.
TimedOut(c) == IsDefined(c.timeout) /\ RejectedWith(c, TimeoutError(c))

----------------------------------------------------------------------------
\* C1: once the transport request of a call has completed in any way, the
\* call's timer is disarmed: it is no longer armed when the call has settled,
\* and controller.abort never runs at or after the call's settlement.
C1_TimerDisarmedOnCompletion ==
    \A i \in CallIds :
        Settled(i) => calls[i].timer # "armed" /\ ~calls[i].lateAbort

----------------------------------------------------------------------------
\* C2: if a call's timer fires while its request is pending, controller.abort
\* is invoked exactly once, the request is cancelled and never yields a
\* response, and the call eventually rejects with the Timeout error: message
\* 'Request timed out after {timeout}ms', cause the cancellation signal's reason.
C2_Safety ==
    \A i \in CallIds :
        calls[i].firedFirst =>
            /\ calls[i].aborts = 1
            /\ calls[i].fetch \in {"pending", "rejected"}
            /\ calls[i].response = Undefined
            /\ calls[i].fetch = "rejected" =>
                   /\ calls[i].reason = Some(AbortReason)
                   /\ TimedOut(calls[i])
            /\ Settled(i) => calls[i].fetch = "rejected"

C2_TimerFiredFirstTimesOut ==
    /\ []C2_Safety
    /\ \A i \in CallIds :
           calls[i].firedFirst ~> TimedOut(calls[i])

C2_Witness ==
    \E i \in CallIds :
        /\ calls[i].firedFirst
        /\ calls[i].aborts = 1
        /\ client.defaultTimeout = 5
        /\ calls[i].options.timeout = Undefined
        /\ RejectedWith(calls[i],
               UptimeError("Request timed out after 5ms", Undefined, Undefined,
                           Some(AbortReason)))

----------------------------------------------------------------------------
\* C3: whenever the transport rejects and the call's timer had not fired, the
\* call rejects with the TransportFailure error: message 'Failed to send
\* heartbeat', no status, cause the transport's error; whatever that error is.
C3_TransportRejectionIsTransportFailure ==
    \A i \in CallIds :
        (calls[i].fetch = "rejected" /\ ~calls[i].firedFirst) =>
            RejectedWith(calls[i],
                UptimeError("Failed to send heartbeat", Undefined, Undefined,
                            calls[i].reason))

----------------------------------------------------------------------------
\* C4: whenever a response that is not ok is obtained, the call rejects with
\* the HttpFailure error: message 'Heartbeat failed: {status} {statusText}',
\* the response's status and statusText, no cause; the response is not returned.
HttpFailure(response) ==
    UptimeError("Heartbeat failed: " \o NumToStr(response.status) \o " "
                    \o response.statusText,
                Some(response.status), Some(response.statusText), Undefined)

C4_NotOkIsHttpFailure ==
    \A i \in CallIds :
        (calls[i].fetch = "fulfilled" /\ ~ResponseOk(Val(calls[i].response))) =>
            RejectedWith(calls[i], HttpFailure(Val(calls[i].response)))

C4_Witness ==
    \E i \in CallIds :
        /\ calls[i].response = Some(Response(404, "Not Found"))
        /\ RejectedWith(calls[i],
               UptimeError("Heartbeat failed: 404 Not Found",
                           Some(404), Some("Not Found"), Undefined))

----------------------------------------------------------------------------
\* C5: a call with an empty heartbeatId, through any entry point and with any
\* other options, rejects with an InvalidArgument error (no status, no cause)
\* with no request issued and no timer armed.
C5_EmptyIdIsInvalidArgument ==
    \A i \in CallIds :
        (calls[i].pc # "idle" /\ calls[i].heartbeatId = "") =>
            /\ RejectedWith(calls[i], InvalidArgument("Heartbeat ID is required"))
            /\ NothingStarted(calls[i])

C5_Witness ==
    \E i \in CallIds :
        /\ calls[i].heartbeatId = ""
        /\ calls[i].entry = "reportWithExitCode"
        /\ calls[i].exitCodeArg = Some(256)
        /\ calls[i].options.reportFailure = Some(TRUE)
        /\ calls[i].options.timeout = Some(0)
        /\ RejectedWith(calls[i], InvalidArgument("Heartbeat ID is required"))

----------------------------------------------------------------------------
\* C6: with a non-empty heartbeatId, reportFailure in effect and an exit code
\* supplied as well (in range or not), exactly the URL
\* {baseUrl}/heartbeat/{id}/fail is requested and no InvalidArgument error is
\* raised.
C6_FailureTakesPrecedence ==
    \A i \in CallIds :
        (/\ calls[i].pc # "idle"
         /\ calls[i].heartbeatId # ""
         /\ WantsFailure(calls[i])
         /\ IsDefined(GivenExitCode(calls[i]))) =>
            /\ Len(calls[i].requests) = 1
            /\ calls[i].requests[1].url =
                   client.baseUrl \o "/heartbeat/" \o calls[i].heartbeatId \o "/fail"
            /\ calls[i].timer # "none"
            /\ \A code \in ExitCodes :
                   ~RejectedWith(calls[i], InvalidArgument(
                        "Exit code must be between 0 and 255, got "
                            \o NumToStr(Val(code))))

C6_Witness ==
    \E i \in CallIds :
        /\ calls[i].entry = "reportWithExitCode"
        /\ calls[i].exitCodeArg = Some(256)
        /\ calls[i].options.reportFailure = Some(TRUE)
        /\ calls[i].requests =
               <<Request("https://custom.example.com/api/heartbeat/abc123/fail",
                         "GET", client.userAgent, i)>>

----------------------------------------------------------------------------
\* C7: with a non-empty heartbeatId and reportFailure not in effect: without
\* an exit code exactly {baseUrl}/heartbeat/{id} is requested; with an exit
\* code in 0..255, exactly {baseUrl}/heartbeat/{id}/{exitCode}; with any other
\* exit code the call rejects with an InvalidArgument error and no request.
C7_ExitCodeUrl ==
    \A i \in CallIds :
        (/\ calls[i].pc # "idle"
         /\ calls[i].heartbeatId # ""
         /\ ~WantsFailure(calls[i])) =>
            LET base == client.baseUrl \o "/heartbeat/" \o calls[i].heartbeatId
                code == GivenExitCode(calls[i])
            IN  IF ~IsDefined(code)
                THEN /\ Len(calls[i].requests) = 1
                     /\ calls[i].requests[1].url = base
                ELSE IF Val(code) >= 0 /\ Val(code) <= 255
                THEN /\ Len(calls[i].requests) = 1
                     /\ calls[i].requests[1].url = base \o "/" \o NumToStr(Val(code))
                ELSE /\ RejectedWith(calls[i], InvalidArgument(
                            "Exit code must be between 0 and 255, got "
                                \o NumToStr(Val(code))))
                     /\ NothingStarted(calls[i])

C7_Witness ==
    \E i \in CallIds :
        /\ calls[i].entry = "reportWithExitCode"
        /\ calls[i].exitCodeArg = Some(255)
        /\ ~WantsFailure(calls[i])
        /\ Len(calls[i].requests) = 1
        /\ calls[i].requests[1].url =
               "https://uptime.betterstack.com/api/v1/heartbeat/abc123/255"

----------------------------------------------------------------------------
\* C8: the timer of a call is armed with the call's options.timeout when one
\* was supplied, otherwise with the defaultTimeout supplied at construction,
\* whatever its value, and with 10000 only when neither was supplied.
C8_TimerArmedWithEffectiveTimeout ==
    \A i \in CallIds :
        calls[i].timer # "none" =>
            calls[i].timerDelay =
                IF IsDefined(calls[i].options.timeout)
                THEN calls[i].options.timeout
                ELSE IF IsDefined(config.defaultTimeout)
                THEN config.defaultTimeout
                ELSE Some(10000)

----------------------------------------------------------------------------
\* C9: calls in flight together are independent.  The client's configuration
\* never changes; every request carries the signal of its own call; a step
\* changes the state of one call only; a call's signal is aborted only by the
\* call's own timer; and two calls with the same arguments, the same transport
\* result and the same timer event have the same outcome.
SameInputs(c, d) ==
    /\ c.entry = d.entry
    /\ c.heartbeatId = d.heartbeatId
    /\ c.options = d.options
    /\ c.exitCodeArg = d.exitCodeArg
    /\ c.response = d.response
    /\ c.reason = d.reason
    /\ c.firedFirst = d.firedFirst

C9_State ==
    /\ client = Constructor(config)
    /\ \A i \in CallIds :
           \A k \in DOMAIN calls[i].requests : calls[i].requests[k].signal = i
    /\ \A i, j \in CallIds :
           (Settled(i) /\ Settled(j) /\ SameInputs(calls[i], calls[j])) =>
               calls[i].outcome = calls[j].outcome

C9_Step ==
    /\ client' = client
    /\ config' = config
    /\ \A i, j \in CallIds :
           (i # j /\ calls'[i] # calls[i]) => calls'[j] = calls[j]
    /\ \A i \in CallIds :
           (calls'[i].aborted /\ ~calls[i].aborted) =>
               calls[i].timer = "armed" /\ calls'[i].timer = "fired"

C9_CallsAreIndependent == []C9_State /\ [][C9_Step]_vars

C9_Witness ==
    \E i, j \in CallIds :
        /\ i # j
        /\ calls[i].firedFirst /\ TimedOut(calls[i])
        /\ calls[j].pc = "awaiting" /\ calls[j].fetch = "pending"
        /\ calls[j].timer = "armed" /\ ~calls[j].aborted

----------------------------------------------------------------------------
\* C10: every call issues at most one request, exactly one when the URL can
\* be built and none otherwise; it settles, and settles once, either with the
\* response the transport produced or with an UptimeError; once it has
\* settled neither its requests nor its outcome change.
UrlCanBeBuilt(c) ==
    /\ c.heartbeatId # ""
    /\ \/ WantsFailure(c)
       \/ ~IsDefined(GivenExitCode(c))
       \/ Val(GivenExitCode(c)) \in 0..255

OutcomeIsResponseOrUptimeError(c) ==
    /\ IsDefined(c.outcome)
    /\ LET result == Val(c.outcome)
       IN  IF result.threw
           THEN result.value = Undefined /\ Val(result.error).class = "UptimeError"
           ELSE /\ result.error = Undefined
                /\ c.fetch = "fulfilled"
                /\ result.value = c.response

C10_State ==
    \A i \in CallIds :
        /\ Len(calls[i].requests) <= 1
        /\ calls[i].pc # "idle" =>
               (Len(calls[i].requests) = 1 <=> UrlCanBeBuilt(calls[i]))
        /\ calls[i].settles = (IF Settled(i) THEN 1 ELSE 0)
        /\ Settled(i) <=> IsDefined(calls[i].outcome)
        /\ Settled(i) => OutcomeIsResponseOrUptimeError(calls[i])

C10_Step ==
    \A i \in CallIds :
        Settled(i) =>
            /\ calls'[i].pc = "settled"
            /\ calls'[i].requests = calls[i].requests
            /\ calls'[i].outcome = calls[i].outcome

C10_OneRequestOneSettlement ==
    /\ []C10_State
    /\ [][C10_Step]_vars
    /\ \A i \in CallIds : (calls[i].pc # "idle") ~> Settled(i)

C10_Witness ==
    \E i, j \in CallIds :
        /\ Settled(i) /\ calls[i].requests = <<>>
        /\ Settled(j) /\ Len(calls[j].requests) = 1
        /\ calls[j].reason = Some(AbortReason)
        /\ calls[j].settles = 1


----------------------------------------------------------------------------
\* C11: the convenience wrappers only forward.  Each call through an entry
\* point makes exactly one sendHeartbeat call, with the same heartbeatId and
\* with: the caller's options unchanged (reportSuccess); the caller's options
\* with reportFailure = true (reportFailure); the caller's options with
\* exitCode = the exitCode argument, whatever exitCode the options held
\* (reportWithExitCode).  What the caller of the wrapper receives is what a
\* direct sendHeartbeat call with those arguments, the same transport result
\* and the same timer event receives, after the same request.
ExpectedForward(c) ==
    [exitCode |-> IF c.entry = "reportWithExitCode"
                  THEN c.exitCodeArg ELSE c.options.exitCode,
     reportFailure |-> IF c.entry = "reportFailure"
                       THEN Some(TRUE) ELSE c.options.reportFailure,
     method |-> c.options.method,
     timeout |-> c.options.timeout]

\* The requests of a call, without the identity of the signal they carry.
RequestsMade(c) ==
    [k \in DOMAIN c.requests |->
        <<c.requests[k].url, c.requests[k].method, c.requests[k].accept,
          c.requests[k].userAgent>>]

\* d is a direct sendHeartbeat call with the arguments the wrapper call c
\* is to forward, and the environment treated both alike.
DirectCounterpart(c, d) ==
    /\ c.entry \in Wrappers
    /\ d.entry = "sendHeartbeat"
    /\ d.heartbeatId = c.heartbeatId
    /\ d.options = ExpectedForward(c)
    /\ d.response = c.response
    /\ d.reason = c.reason
    /\ d.firedFirst = c.firedFirst

C11_State ==
    /\ \A i \in CallIds :
           calls[i].pc # "idle" =>
               calls[i].forwards =
                   <<[heartbeatId |-> calls[i].heartbeatId,
                      options |-> ExpectedForward(calls[i])]>>
    /\ \A i, j \in CallIds :
           DirectCounterpart(calls[i], calls[j]) =>
               /\ RequestsMade(calls[i]) = RequestsMade(calls[j])
               /\ (Settled(i) /\ Settled(j)) =>
                      calls[i].outcome = calls[j].outcome

C11_Step ==
    \A i \in CallIds :
        calls[i].pc # "idle" => calls'[i].forwards = calls[i].forwards

C11_WrappersOnlyForward == []C11_State /\ [][C11_Step]_vars

C11_Witness ==
    /\ calls[1].entry = "reportWithExitCode"
    /\ calls[1].options.exitCode = Some(256)
    /\ calls[1].options.method = Some("POST")
    /\ calls[1].exitCodeArg = Some(42)
    /\ calls[1].forwards =
           <<[heartbeatId |-> "abc123",
              options |-> [exitCode |-> Some(42), reportFailure |-> Undefined,
                           method |-> Some("POST"), timeout |-> Undefined]]>>
    /\ DirectCounterpart(calls[1], calls[2])
    /\ calls[1].outcome = Some(Returned(Response(200, "OK")))
    /\ calls[2].outcome = calls[1].outcome

====
